---- MODULE Spec2Model ----
(***************************************************************************)
(* A model of src/Dictionary.ts: a key/value container that keeps its      *)
(* entries as own properties of the container object, with an optional     *)
(* cache of the key list and a tick-driven traversal.                      *)
(*                                                                         *)
(* Property names are modelled as sequences of tokens, so that the         *)
(* substring search has() performs (String.prototype.indexOf) is a real    *)
(* search; the reserved identifier "__private__" is one token.  JavaScript *)
(* values are modelled by the strings that print them.  Property names     *)
(* that shadow the container's own methods (set("has", ..)) are outside    *)
(* the key universe.                                                       *)
(***************************************************************************)
EXTENDS Integers, Sequences, FiniteSets, TLC

VARIABLES
    dict,     \* the container
    twin,     \* a container without the key cache, given the same calls
    ret,      \* what the last getKeys() or size() of dict returned
    twinRet,  \* what the same call on twin returned
    run       \* the cooperative traversal: its cursor, the host's queues, a log

\* ---------------------------------------------------------------- bounds

\* Most user properties a container holds at once.
MaxSize == 3

\* ------------------------------------------------------------ JS values

Undefined == "undefined"
\* The value null passed as a key (no string is equal to it).
JSNull == <<"(null)">>
PrivateObject == "[object __private__]"

\* The name of the internal field (src/Dictionary.ts:14).
PrivateName == <<"__private__">>

\* Property names the model stores: two plain names, an array index and
\* a plain name that contains the reserved identifier.
UserKeys == { <<"a">>, <<"b">>, <<"0">>, <<"x", "__private__">> }

\* Every key a caller passes.
Keys == UserKeys \cup {PrivateName}

\* Values a caller stores: two falsy values, neither of them undefined.
Values == { "0", "" }

\* The number of set() and remove() calls made on the container while a
\* traversal of it runs.
MaxMutations == 2

\* ----------------------------------------------------- the host's object

\* String(i) for an array position.
IndexName(i) == <<ToString(i)>>

\* A canonical array index: such properties are enumerated first, in
\* ascending numeric order (OrdinaryOwnPropertyKeys).
IsArrayIndex(key) == \E n \in 0..9 : key = IndexName(n)

IndexValue(key) == CHOOSE n \in 0..9 : key = IndexName(n)

\* The names of the own enumerable properties, in creation order.
PropNames(d) == [i \in 1..Len(d.props) |-> d.props[i].key]

RECURSIVE SortIndices(_)
\* The array-index names of a set, ascending.
SortIndices(S) ==
    IF S = {} THEN <<>>
    ELSE LET m == CHOOSE k \in S : \A o \in S : IndexValue(k) <= IndexValue(o)
         IN  <<m>> \o SortIndices(S \ {m})

Range(s) == { s[i] : i \in 1..Len(s) }

\* Object.keys(this): the own enumerable string-named properties; the
\* internal field is not enumerable and the iterator is symbol-named.
ObjectKeys(d) ==
    LET notIdx(k) == ~IsArrayIndex(k)
    IN  SortIndices({ k \in Range(PropNames(d)) : IsArrayIndex(k) })
          \o SelectSeq(PropNames(d), notIdx)

\* this.hasOwnProperty(key), the internal field included.
HasOwnProperty(d, key) ==
    \/ key = PrivateName
    \/ \E i \in 1..Len(d.props) : d.props[i].key = key

\* this[key]
GetProperty(d, key) ==
    IF key = PrivateName THEN PrivateObject
    ELSE IF \E i \in 1..Len(d.props) : d.props[i].key = key
         THEN d.props[CHOOSE i \in 1..Len(d.props) : d.props[i].key = key].value
         ELSE Undefined

\* this[key] = value: the internal field is not writable and the store is
\* refused; an existing property keeps its place, a new one is appended.
PutProperty(d, key, value) ==
    IF key = PrivateName THEN d
    ELSE IF \E i \in 1..Len(d.props) : d.props[i].key = key
         THEN [d EXCEPT !.props =
                 [i \in 1..Len(d.props) |->
                    IF d.props[i].key = key
                    THEN [key |-> key, value |-> value] ELSE d.props[i]]]
         ELSE [d EXCEPT !.props = Append(d.props, [key |-> key, value |-> value])]

\* delete this[key]: the internal field is not configurable and stays.
DeleteProperty(d, key) ==
    LET keep(p) == p.key # key
    IN  [d EXCEPT !.props = SelectSeq(d.props, keep)]

\* delete this[key] raises a TypeError in strict code when the property is
\* not configurable, as the internal field is.
DeleteRaises(d, key) == key = PrivateName

\* key.indexOf(pat): the first position (from 0) at which pat occurs in
\* key, or -1.
IndexOf(key, pat) ==
    LET at == { i \in 0..(Len(key) - Len(pat)) :
                  \A j \in 1..Len(pat) : key[i + j] = pat[j] }
    IN  IF at = {} THEN -1 ELSE CHOOSE i \in at : \A o \in at : i <= o

\* ------------------------------------------------------------ Dictionary

NoKeys == [isNull |-> TRUE, arr |-> <<>>]

\* constructor(cacheKeys)
Dictionary(cacheKeys) ==
    [ props          |-> <<>>,
      cacheKeys      |-> cacheKeys,
      invalidateKeys |-> TRUE,
      keys           |-> NoKeys ]

\* has(key)
has(d, key) ==
    IF key = JSNull THEN FALSE
    ELSE IF IndexOf(key, PrivateName) >= 0 THEN FALSE
    ELSE HasOwnProperty(d, key)

\* invalidate()
invalidate(d) == [d EXCEPT !.invalidateKeys = TRUE]

\* getKeys(): the container afterwards and the array returned.
getKeys(d) ==
    IF ~d.cacheKeys
    THEN [d |-> d, ret |-> ObjectKeys(d)]
    ELSE IF d.invalidateKeys \/ d.keys.isNull
         THEN [d   |-> [d EXCEPT !.invalidateKeys = FALSE,
                                 !.keys = [isNull |-> FALSE, arr |-> ObjectKeys(d)]],
               ret |-> ObjectKeys(d)]
         ELSE [d |-> d, ret |-> d.keys.arr]

\* keys()
keys(d) == getKeys(d)

\* size()
size(d) == [d |-> getKeys(d).d, ret |-> Len(getKeys(d).ret)]

\* length
length(d) == size(d)

\* values(): the loop is over the positions of the key array ("0", "1",
\* ..), and reads the property of that name.
values(d) ==
    LET ks == getKeys(d)
    IN  [d   |-> ks.d,
         ret |-> [i \in 1..Len(ks.ret) |-> GetProperty(ks.d, IndexName(i - 1))]]

\* remove(key) without the call of invalidate().
removeKeepsCache(d, key) == DeleteProperty(d, key)

\* remove(key)
remove(d, key) == DeleteProperty(invalidate(d), key)

\* set(key, value) without the call of invalidate().
setKeepsCache(d, key, value) == PutProperty(d, key, value)

\* set(key, value)
set(d, key, value) == PutProperty(invalidate(d), key, value)

\* get(key)
get(d, key) == GetProperty(d, key)

\* getDefault(key, defaultValue)
getDefault(d, key, defaultValue) ==
    IF has(d, key) THEN GetProperty(d, key) ELSE defaultValue

\* A callback handed to each(): it returns ret on its at-th invocation and
\* undefined on every other one; when removes is set it first calls
\* this.remove(key), as the callback of empty() does.
EachCallbacks ==
    [ at : 1..MaxSize, ret : {"false", "0", Undefined}, removes : {FALSE} ]

\* The callback of empty() (src/Dictionary.ts:185-187).
EmptyCallback == [at |-> 1, ret |-> Undefined, removes |-> TRUE]

\* What the n-th invocation of cb returns.
CallbackReturn(cb, n) == IF n = cb.at THEN cb.ret ELSE Undefined

RECURSIVE EachLoop(_, _, _, _, _)
\* The for..in loop of each() from position i of the enumeration ks, which
\* is fixed when the loop starts; a property deleted before its turn fails
\* the has() test like an inherited one.  visited lists the keys the
\* callback was invoked with.
EachLoop(d, ks, i, cb, visited) ==
    IF i > Len(ks) THEN [d |-> d, visited |-> visited]
    ELSE IF ~has(d, ks[i]) THEN EachLoop(d, ks, i + 1, cb, visited)
    ELSE LET d2 == IF cb.removes THEN remove(d, ks[i]) ELSE d
             v2 == Append(visited, ks[i])
         IN  IF CallbackReturn(cb, Len(v2)) = "false"
             THEN [d |-> d2, visited |-> v2]
             ELSE EachLoop(d2, ks, i + 1, cb, v2)

\* each(cbEach): own enumerable string-named properties are enumerated in
\* the order of Object.keys.
each(d, cb) == EachLoop(d, ObjectKeys(d), 1, cb, <<>>)

\* forEach(cb)
forEach(d, cb) == each(d, cb)

\* empty()
empty(d) == forEach(d, EmptyCallback).d

\* clear()
clear(d) == empty(d)


\* ------------------------------------------- the cooperative traversal

\* A callback handed to asyncForEach().  On its at-th invocation it calls
\* the continuation calls times and returns ret; on every other invocation
\* it calls the continuation once and returns other.  It calls the
\* continuation before it returns (mode "now") or from a later task (mode
\* "later").  When removes is set it first calls this.remove(key), as the
\* callback of asyncEmpty() does; effect is a call it makes on the container
\* before it calls the continuation.
StepReturns == { Undefined, "null", "0", "", "false" }

\* A call on the container made while a traversal runs.
NoEffect == [op |-> "none", key |-> <<>>, value |-> Undefined]
SetEffect(key, value) == [op |-> "set", key |-> key, value |-> value]
RemoveEffect(key) == [op |-> "remove", key |-> key, value |-> Undefined]
GetKeysEffect == [op |-> "getKeys", key |-> <<>>, value |-> Undefined]

StepCallbacks ==
    [ at : 1..MaxSize, ret : StepReturns, calls : 0..2, mode : {"now", "later"},
      other : {Undefined, "0"}, removes : {FALSE}, effect : {NoEffect} ]

\* The callback of asyncEmpty() (src/Dictionary.ts:205-209).
AsyncEmptyCallback ==
    [ at |-> 0, ret |-> Undefined, calls |-> 1, mode |-> "now",
      other |-> Undefined, removes |-> TRUE, effect |-> NoEffect ]

\* x == false: false, 0, "" and "0" are loosely equal to false; undefined,
\* null and true are not.
LooselyEqualsFalse(x) == x \in { "false", "0", "" }

Event(ev) == [ev |-> ev, key |-> <<>>, value |-> Undefined]
StepEvent(key, value) == [ev |-> "step", key |-> key, value |-> value]

\* No traversal yet.  ticks counts the step tasks on the host's nextTick
\* queue, owed the continuation calls a callback still has to make, micro
\* the resumption of asyncEmpty() after its await; atCall keeps the
\* properties the container held when the traversal was started.
Idle ==
    [ phase |-> "idle", keys |-> <<>>, counter |-> 0, len |-> 0,
      cb |-> AsyncEmptyCallback, cbComplete |-> FALSE, resolved |-> FALSE,
      ticks |-> 0, owed |-> 0, invoked |-> 0,
      awaited |-> FALSE, emptyComplete |-> FALSE, micro |-> 0,
      atCall |-> <<>>, log |-> <<>> ]

Log(m, e) == [m EXCEPT !.run.log = Append(@, e)]

\* The call e made on the container of m, and logged.
Perform(m, e) ==
    IF e.op = "set"
    THEN [Log(m, [ev |-> "set", key |-> e.key, value |-> e.value])
            EXCEPT !.dict = set(m.dict, e.key, e.value)]
    ELSE IF e.op = "remove"
    THEN [Log(m, [ev |-> "remove", key |-> e.key, value |-> Undefined])
            EXCEPT !.dict = remove(m.dict, e.key)]
    ELSE IF e.op = "getKeys"
    THEN [m EXCEPT !.dict = getKeys(m.dict).d]
    ELSE m

\* resolve(): the first call settles the promise, and resumes the caller
\* that awaits it in a microtask.
resolve(m) ==
    LET m1 == Log(m, Event("resolve"))
    IN  IF m.run.resolved THEN m1
        ELSE [m1 EXCEPT !.run.resolved = TRUE,
                        !.run.micro = IF m.run.awaited THEN 1 ELSE 0]

\* complete() that takes both branches.
completeBoth(m) == resolve(Log(m, Event("cbComplete")))

\* if (cbComplete != null) cbComplete(); else resolve();
complete(m) ==
    IF m.run.cbComplete THEN Log(m, Event("cbComplete")) ELSE resolve(m)

RECURSIVE step(_)
\* next() that runs the following step itself instead of queueing it.
nextRunsStep(m) ==
    IF m.run.counter < m.run.len
    THEN step(m)
    ELSE complete(m)

\* next() that lacks the branch taken when no key is left.
nextForgetsCompletion(m) ==
    IF m.run.counter < m.run.len
    THEN [m EXCEPT !.run.ticks = @ + 1]
    ELSE m

\* next() with the test counter < len - 1.
nextOffByOne(m) ==
    IF m.run.counter < m.run.len - 1
    THEN [m EXCEPT !.run.ticks = @ + 1]
    ELSE complete(m)

\* next(), the continuation handed to the callback
next(m) ==
    IF m.run.counter < m.run.len
    THEN [m EXCEPT !.run.ticks = @ + 1]
    ELSE complete(m)

RECURSIVE nextTimes(_, _)
\* n calls of next() in a row.
nextTimes(m, n) == IF n = 0 THEN m ELSE nextTimes(next(m), n - 1)

\* cbIterator() handed the value the key had when the traversal started.
cbIteratorOldValue(m, key) ==
    LET cb    == m.run.cb
        n     == m.run.invoked + 1
        calls == IF n = cb.at THEN cb.calls ELSE 1
        m1    == [Log(m, StepEvent(key, GetProperty([props |-> m.run.atCall], key)))
                    EXCEPT !.run.invoked = n]
        m2    == IF cb.removes THEN [m1 EXCEPT !.dict = remove(m1.dict, key)]
                 ELSE Perform(m1, cb.effect)
        m3    == IF cb.mode = "now" THEN nextTimes(m2, calls)
                 ELSE [m2 EXCEPT !.run.owed = @ + calls]
    IN  [m   |-> Log(m3, Event("stepReturn")),
         ret |-> IF n = cb.at THEN cb.ret ELSE cb.other]

\* cbIterator(key, this[key], next): the container and traversal after the
\* callback has run, and what it returned.
cbIterator(m, key) ==
    LET cb    == m.run.cb
        n     == m.run.invoked + 1
        calls == IF n = cb.at THEN cb.calls ELSE 1
        m1    == [Log(m, StepEvent(key, GetProperty(m.dict, key)))
                    EXCEPT !.run.invoked = n]
        m2    == IF cb.removes THEN [m1 EXCEPT !.dict = remove(m1.dict, key)]
                 ELSE Perform(m1, cb.effect)
        m3    == IF cb.mode = "now" THEN nextTimes(m2, calls)
                 ELSE [m2 EXCEPT !.run.owed = @ + calls]
    IN  [m   |-> Log(m3, Event("stepReturn")),
         ret |-> IF n = cb.at THEN cb.ret ELSE cb.other]

\* step() that lists the keys anew at every call.
stepRereadsKeys(m) ==
    LET ks == getKeys(m.dict)
    IN  IF m.run.counter < Len(ks.ret)
        THEN LET key == ks.ret[m.run.counter + 1]
                 r   == cbIterator([m EXCEPT !.dict = ks.d, !.run.counter = @ + 1], key)
             IN  IF LooselyEqualsFalse(r.ret) THEN complete(r.m) ELSE r.m
        ELSE complete(m)

\* step()
step(m) ==
    IF m.run.counter < m.run.len
    THEN LET key == m.run.keys[m.run.counter + 1]
             r   == cbIterator([m EXCEPT !.run.counter = @ + 1], key)
         IN  IF LooselyEqualsFalse(r.ret) THEN complete(r.m) ELSE r.m
    ELSE complete(m)

\* asyncForEach(cbIterator, cbComplete): the promise executor runs within
\* the call, and so does the first step().
asyncForEach(m, cb, cbComplete) ==
    LET ks == getKeys(m.dict)
        m1 == [Log(m, Event("call")) EXCEPT
                 !.dict = ks.d,
                 !.run.phase = "running",
                 !.run.keys = ks.ret,
                 !.run.counter = 0,
                 !.run.len = Len(ks.ret),
                 !.run.cb = cb,
                 !.run.cbComplete = cbComplete,
                 !.run.atCall = m.dict.props]
    IN  Log(step(m1), Event("return"))

\* asyncEmpty(cbComplete): the executor runs up to its await within the
\* call; the traversal it awaits has no completion callback.
asyncEmpty(m, cbComplete) ==
    LET m1 == [Log(m, Event("emptyCall")) EXCEPT
                 !.run.awaited = TRUE,
                 !.run.emptyComplete = cbComplete]
    IN  Log(asyncForEach(m1, AsyncEmptyCallback, FALSE), Event("emptyReturn"))

\* asyncEmpty() after its await: cbComplete() if given, else resolve().
asyncEmptyResume(m) ==
    IF m.run.emptyComplete
    THEN Log(m, Event("emptyCbComplete"))
    ELSE Log(m, Event("emptyResolve"))

\* --------------------------------------------------------------- actions

vars == <<dict, twin, ret, twinRet, run>>

\* A store of a property the container does not hold yet stays within the
\* bound.
Room(d, key) == HasOwnProperty(d, key) \/ Len(d.props) < MaxSize

\* What a call returned: nothing, a key array or a number.
Void == [kind |-> "void"]
KeysResult(arr) == [kind |-> "keys", val |-> arr]
NumberResult(n) == [kind |-> "number", val |-> n]

Init ==
    /\ dict \in { Dictionary(TRUE), Dictionary(FALSE) }
    /\ twin = Dictionary(FALSE)
    /\ ret = Void
    /\ twinRet = Void
    /\ run = Idle

Set(key, value) ==
    /\ Room(dict, key)
    /\ dict' = set(dict, key, value)
    /\ UNCHANGED <<twin, ret, twinRet, run>>

Remove(key) ==
    /\ dict' = remove(dict, key)
    /\ UNCHANGED <<twin, ret, twinRet, run>>

Invalidate ==
    /\ dict' = invalidate(dict)
    /\ UNCHANGED <<twin, ret, twinRet, run>>

GetKeys ==
    /\ dict' = getKeys(dict).d
    /\ UNCHANGED <<twin, ret, twinRet, run>>

Size ==
    /\ dict' = size(dict).d
    /\ UNCHANGED <<twin, ret, twinRet, run>>

ValuesOf ==
    /\ dict' = values(dict).d
    /\ UNCHANGED <<twin, ret, twinRet, run>>

Each(cb) ==
    /\ dict' = each(dict, cb).d
    /\ UNCHANGED <<twin, ret, twinRet, run>>

Empty ==
    /\ dict' = empty(dict)
    /\ UNCHANGED <<twin, ret, twinRet, run>>

Next ==
    \/ \E key \in Keys, value \in Values : Set(key, value)
    \/ \E key \in Keys : Remove(key)
    \/ Invalidate
    \/ GetKeys
    \/ Size
    \/ ValuesOf
    \/ \E cb \in EachCallbacks : Each(cb)
    \/ Empty

Spec == Init /\ [][Next]_vars

\* ------------------------------------------------- the store: C1, C3-C5, C9

\* C1: getKeys() lists exactly the keys for which has() is true: every key
\* it lists passes has(), and every key that passes has() is listed.
C1_KeysAreExactlyHas ==
    Range(getKeys(dict).ret) = { key \in Keys \cup {JSNull} : has(dict, key) }

\* C3: values() follows getKeys(): it is as long, and at every position i
\* it holds get(getKeys()[i]).
C3_ValuesFollowKeys ==
    /\ Len(values(dict).ret) = Len(getKeys(dict).ret)
    /\ \A i \in 1..Len(getKeys(dict).ret) :
         values(dict).ret[i] = get(dict, getKeys(dict).ret[i])

\* C4: set(k, v) followed by get(k) returns v for every key and value, and
\* no stored value is the result get() gives for a key that is not stored.
C4_SetThenGet ==
    /\ \A key \in Keys, value \in Values :
         Room(dict, key) => get(set(dict, key, value), key) = value
    /\ \A key \in UserKeys :
         HasOwnProperty(dict, key) => get(dict, key) # get(Dictionary(FALSE), key)

\* C5: after empty() (or clear()) the container has no user-visible key:
\* size() is 0 and getKeys() is empty.
C5_EmptyLeavesNothing ==
    /\ size(empty(dict)).ret = 0
    /\ getKeys(empty(dict)).ret = <<>>
    /\ size(clear(dict)).ret = 0

\* C9: in each() and forEach(), a callback that returns false on its N-th
\* invocation is invoked exactly N times; one that never returns false is
\* invoked once for every user-visible key, in the order of getKeys().
C9_EachStopsOnFalse ==
    \A cb \in EachCallbacks :
        LET visited == each(dict, cb).visited
        IN  /\ forEach(dict, cb) = each(dict, cb)
            /\ IF cb.ret = "false" /\ Len(visited) >= cb.at
               THEN Len(visited) = cb.at
               ELSE visited = getKeys(dict).ret

\* Every stored key is free of the reserved identifier.
PlainKeysOnly ==
    \A i \in 1..Len(dict.props) : IndexOf(dict.props[i].key, PrivateName) < 0

\* What holds of C1, C5 and C9: each holds of a container none of whose
\* keys contains the reserved identifier.
PlainKeysAgree ==
    PlainKeysOnly =>
        C1_KeysAreExactlyHas /\ C5_EmptyLeavesNothing /\ C9_EachStopsOnFalse

\* ------------------------------------------- cached against uncached: C2

\* The same call is made on a container with the key cache and on one
\* without it.
PairInit ==
    /\ dict = Dictionary(TRUE)
    /\ twin = Dictionary(FALSE)
    /\ ret = Void
    /\ twinRet = Void
    /\ run = Idle

PairSet(key, value) ==
    /\ Room(dict, key)
    /\ dict' = set(dict, key, value)
    /\ twin' = set(twin, key, value)
    /\ ret' = Void
    /\ twinRet' = Void
    /\ UNCHANGED run

PairRemove(key) ==
    /\ dict' = remove(dict, key)
    /\ twin' = remove(twin, key)
    /\ ret' = Void
    /\ twinRet' = Void
    /\ UNCHANGED run

PairEmpty ==
    /\ dict' = empty(dict)
    /\ twin' = empty(twin)
    /\ ret' = Void
    /\ twinRet' = Void
    /\ UNCHANGED run

PairInvalidate ==
    /\ dict' = invalidate(dict)
    /\ twin' = invalidate(twin)
    /\ ret' = Void
    /\ twinRet' = Void
    /\ UNCHANGED run

PairGetKeys ==
    /\ dict' = getKeys(dict).d
    /\ twin' = getKeys(twin).d
    /\ ret' = KeysResult(getKeys(dict).ret)
    /\ twinRet' = KeysResult(getKeys(twin).ret)
    /\ UNCHANGED run

PairSize ==
    /\ dict' = size(dict).d
    /\ twin' = size(twin).d
    /\ ret' = NumberResult(size(dict).ret)
    /\ twinRet' = NumberResult(size(twin).ret)
    /\ UNCHANGED run

PairNext ==
    \/ \E key \in Keys, value \in Values : PairSet(key, value)
    \/ \E key \in Keys : PairRemove(key)
    \/ PairEmpty
    \/ PairInvalidate
    \/ PairGetKeys
    \/ PairSize

SpecPair == PairInit /\ [][PairNext]_vars

\* C2: every getKeys() and size() call returns the same from the container
\* with the key cache as from the one without it.
C2_CachedMatchesUncached == ret = twinRet

\* A getKeys() that listed two keys or more, answered from a rebuilt cache.
C2_Witness ==
    /\ ret.kind = "keys"
    /\ Len(ret.val) >= 2
    /\ dict.cacheKeys /\ ~dict.invalidateKeys /\ ~twin.cacheKeys
    /\ dict.keys.arr = ret.val

\* ------------------------------------- asyncForEach: C6, C7, C8

Machine == [dict |-> dict, run |-> run]

\* The container is filled before the traversal starts.
Prepare(key, value) ==
    /\ run.phase = "idle"
    /\ Set(key, value)

PrepareGetKeys ==
    /\ run.phase = "idle"
    /\ GetKeys

AsyncForEach(cb, cbComplete) ==
    /\ run.phase = "idle"
    /\ dict' = asyncForEach(Machine, cb, cbComplete).dict
    /\ run' = asyncForEach(Machine, cb, cbComplete).run
    /\ UNCHANGED <<twin, ret, twinRet>>

\* The host runs the step task at the head of its nextTick queue.
Tick ==
    /\ run.ticks > 0
    /\ LET m == step([Machine EXCEPT !.run.ticks = @ - 1])
       IN  dict' = m.dict /\ run' = m.run
    /\ UNCHANGED <<twin, ret, twinRet>>

\* A task of the callback's calls the continuation it was handed.
Advance ==
    /\ run.owed > 0
    /\ LET m == next([Machine EXCEPT !.run.owed = @ - 1])
       IN  dict' = m.dict /\ run' = m.run
    /\ UNCHANGED <<twin, ret, twinRet>>

AsyncNext ==
    \/ \E key \in UserKeys : Prepare(key, "0")
    \/ \E cb \in StepCallbacks, cbComplete \in BOOLEAN : AsyncForEach(cb, cbComplete)
    \/ Tick
    \/ Advance

SpecAsync == Init /\ [][AsyncNext]_vars

\* The number of events of one kind in the log.
Count(ev) == Cardinality({ i \in 1..Len(run.log) : run.log[i].ev = ev })

IsCompletion(e) == e.ev \in {"cbComplete", "resolve"}

\* How often the completion notification has fired: every invocation of
\* the completion callback, and the settling of the returned promise.
Notifications == Count("cbComplete") + (IF Count("resolve") > 0 THEN 1 ELSE 0)

\* The number of step invocations before the first completion.
StepsBeforeCompletion ==
    LET first == CHOOSE i \in 1..Len(run.log) :
                    /\ IsCompletion(run.log[i])
                    /\ \A j \in 1..(i - 1) : ~IsCompletion(run.log[j])
    IN  Cardinality({ j \in 1..first : run.log[j].ev = "step" })

\* Nothing is queued and no continuation call is outstanding.
Quiescent == run.ticks = 0 /\ run.owed = 0

\* C6: asyncForEach never acts within the call: every step invocation and
\* every completion comes after the call has returned.
C6_NeverSynchronous ==
    \A i \in 1..Len(run.log) :
        (run.log[i].ev = "step" \/ IsCompletion(run.log[i]))
            => \E j \in 1..(i - 1) : run.log[j].ev = "return"

\* C7: with n keys and a callback that calls advance once in every step and
\* never returns false, the callback is invoked n times and then the
\* completion fires, once, after the n-th invocation.
C7_AllStepsThenOneCompletion ==
    (run.phase = "running" /\ run.cb.calls = 1 /\ run.cb.ret # "false")
        => /\ Count("step") <= run.len
           /\ Notifications <= 1
           /\ Notifications = 1 => StepsBeforeCompletion = run.len
           /\ Quiescent => Count("step") = run.len /\ Notifications = 1

\* C8: with a callback that calls advance on the first k-1 keys and returns
\* false on the k-th without calling advance, the completion fires after
\* exactly k step invocations and no later key is visited.
C8_FalseStopsAtK ==
    (run.phase = "running" /\ run.cb.ret = "false" /\ run.cb.calls = 0
       /\ run.cb.at <= run.len)
        => /\ Count("step") <= run.cb.at
           /\ Notifications >= 1 => StepsBeforeCompletion = run.cb.at
           /\ run.invoked = run.cb.at => Notifications >= 1

\* What holds of C7 and C8: each holds of a callback none of whose return
\* values other than false is loosely equal to false.
StrictReturnsAgree ==
    (/\ ~LooselyEqualsFalse(run.cb.other)
     /\ run.cb.ret = "false" \/ ~LooselyEqualsFalse(run.cb.ret))
        => C7_AllStepsThenOneCompletion /\ C8_FalseStopsAtK

\* ------------------------------------------------------ asyncEmpty: C10

AsyncEmpty(cbComplete) ==
    /\ run.phase = "idle"
    /\ dict' = asyncEmpty(Machine, cbComplete).dict
    /\ run' = asyncEmpty(Machine, cbComplete).run
    /\ UNCHANGED <<twin, ret, twinRet>>

\* The host runs the microtask that resumes asyncEmpty() after its await.
Resume ==
    /\ run.micro > 0
    /\ LET m == asyncEmptyResume([Machine EXCEPT !.run.micro = @ - 1])
       IN  dict' = m.dict /\ run' = m.run
    /\ UNCHANGED <<twin, ret, twinRet>>

\* Nobody else touches the container once the traversal has started.
AsyncEmptyNext ==
    \/ \E key \in UserKeys, value \in Values : Prepare(key, value)
    \/ PrepareGetKeys
    \/ \E cbComplete \in BOOLEAN : AsyncEmpty(cbComplete)
    \/ Tick
    \/ Resume

SpecAsyncEmpty == Init /\ [][AsyncEmptyNext]_vars

EmptyCompleted == Count("emptyCbComplete") + Count("emptyResolve") > 0

\* C10: when the completion of asyncEmpty() fires the container has no
\* user-visible key left: size() is 0.
C10_AsyncEmptyLeavesNothing ==
    EmptyCompleted => size(dict).ret = 0 /\ getKeys(dict).ret = <<>>

\* The completion of an asyncEmpty() over two keys or more, one of them a
\* key that has() does not admit.
C10_Witness ==
    /\ EmptyCompleted
    /\ run.len >= 2
    /\ \E i \in 1..run.len : ~has(Dictionary(FALSE), run.keys[i])
    /\ Count("step") = run.len

\* ------------------------------------------ both traversals together: C11

TraversalNext ==
    \/ \E key \in UserKeys : Prepare(key, "0")
    \/ \E cb \in StepCallbacks, cbComplete \in BOOLEAN : AsyncForEach(cb, cbComplete)
    \/ \E cbComplete \in BOOLEAN : AsyncEmpty(cbComplete)
    \/ Tick
    \/ Advance
    \/ Resume

SpecTraversal == Init /\ [][TraversalNext]_vars

\* Every step callback of the traversal called its continuation.
AlwaysAdvances == run.cb.calls >= 1 \/ run.cb.at > run.len

\* The traversal went through its whole snapshot and nothing is pending.
Exhausted ==
    /\ run.phase = "running"
    /\ run.counter = run.len
    /\ Quiescent
    /\ AlwaysAdvances

\* C11: the two completion channels exclude each other.  With a completion
\* callback the promise of asyncForEach() is never resolved and the
\* callback is invoked once the traversal is done; without one the callback
\* channel stays silent and the promise is resolved once the traversal is
\* done.  The same holds for the callback and the promise of asyncEmpty().
C11_OneCompletionChannel ==
    /\ run.cbComplete => Count("resolve") = 0 /\ ~run.resolved
    /\ ~run.cbComplete => Count("cbComplete") = 0
    /\ Exhausted =>
          IF run.cbComplete THEN Count("cbComplete") >= 1 ELSE run.resolved
    /\ run.emptyComplete => Count("emptyResolve") = 0
    /\ ~run.emptyComplete => Count("emptyCbComplete") = 0
    /\ run.awaited /\ run.resolved /\ run.micro = 0 =>
          IF run.emptyComplete THEN Count("emptyCbComplete") = 1
          ELSE Count("emptyResolve") = 1

\* A traversal of two keys or more, with a completion callback, that is
\* done and has invoked the callback.
C11_Witness ==
    /\ Exhausted
    /\ run.len >= 2
    /\ run.cbComplete
    /\ Count("cbComplete") >= 1
    /\ Count("step") = run.len

\* ------------------------- calls on the container during a traversal: C12

\* The keys other code touches while the traversal runs.
ConcurrentKeys == { <<"a">>, <<"b">>, <<"0">> }

\* The calls other code makes on the container while the traversal runs.
Effects ==
    {NoEffect, GetKeysEffect}
      \cup { SetEffect(key, "") : key \in ConcurrentKeys }
      \cup { RemoveEffect(key) : key \in ConcurrentKeys }

\* The set() and remove() calls made since the traversal was started.
Mutations == Count("set") + Count("remove")

Allowed(effect) ==
    /\ effect.op \in {"set", "remove"} => Mutations < MaxMutations
    /\ effect.op = "set" => Room(dict, effect.key)

\* A callback that makes one call on the container, calls the continuation
\* and returns nothing.
AdvancingCallback(effect) ==
    [ at |-> 1, ret |-> Undefined, calls |-> 1, mode |-> "now",
      other |-> Undefined, removes |-> FALSE, effect |-> effect ]

ConcurrentStart(effect) ==
    /\ Allowed(effect)
    /\ AsyncForEach(AdvancingCallback(effect), FALSE)

\* The host runs the next step task; its callback makes the call effect.
ConcurrentTick(effect) ==
    /\ run.ticks > 0
    /\ Allowed(effect)
    /\ LET m == step([Machine EXCEPT !.run.ticks = @ - 1,
                                     !.run.cb = AdvancingCallback(effect)])
       IN  dict' = m.dict /\ run' = m.run
    /\ UNCHANGED <<twin, ret, twinRet>>

\* Another task makes a call on the container between two ticks.
OtherTask(effect) ==
    /\ run.phase = "running"
    /\ run.ticks > 0
    /\ effect # NoEffect
    /\ Allowed(effect)
    /\ LET m == Perform(Machine, effect)
       IN  dict' = m.dict /\ run' = m.run
    /\ UNCHANGED <<twin, ret, twinRet>>

ConcurrentNext ==
    \/ \E key \in ConcurrentKeys : Prepare(key, "0")
    \/ PrepareGetKeys
    \/ \E effect \in Effects : ConcurrentStart(effect)
    \/ \E effect \in Effects : ConcurrentTick(effect)
    \/ \E effect \in Effects : OtherTask(effect)

SpecConcurrent == Init /\ [][ConcurrentNext]_vars

\* The step invocations so far, in order.
Steps ==
    LET isStep(e) == e.ev = "step"
    IN  SelectSeq(run.log, isStep)

\* What getKeys() listed when the traversal was started.
Snapshot == ObjectKeys([props |-> run.atCall])

\* The key of the event at position p of the log was removed before it and
\* not stored again.
RemovedBefore(p) ==
    \E q \in 1..(p - 1) :
        /\ run.log[q].ev = "remove"
        /\ run.log[q].key = run.log[p].key
        /\ \A r \in (q + 1)..(p - 1) :
              ~(run.log[r].ev = "set" /\ run.log[r].key = run.log[p].key)

\* C12: the keys a traversal visits are those getKeys() listed when
\* asyncForEach() was called, in that order: a key stored during the
\* traversal, by a step callback or by another task between two ticks, is
\* not visited, and a key removed before its turn is visited at its place
\* with the value undefined, with the key cache on or off and also when
\* getKeys() rebuilds the cache during the traversal.
C12_VisitsSnapshot ==
    /\ Len(Steps) <= Len(Snapshot)
    /\ \A i \in 1..Len(Steps) : Steps[i].key = Snapshot[i]
    /\ Exhausted => Len(Steps) = Len(Snapshot)
    /\ \A p \in 1..Len(run.log) :
          run.log[p].ev = "step" /\ RemovedBefore(p) => run.log[p].value = Undefined

\* A traversal of a caching container that is done, during which a key was
\* removed before its turn and was visited all the same, and a key was
\* stored that the snapshot does not list.
C12_Witness ==
    /\ Exhausted
    /\ dict.cacheKeys
    /\ Len(Snapshot) >= 2
    /\ \E p \in 1..Len(run.log) : run.log[p].ev = "step" /\ RemovedBefore(p)
    /\ \E q \in 1..Len(run.log) :
          run.log[q].ev = "set" /\ run.log[q].key \notin Range(Snapshot)

\* ------------------------------------------- the store again: C13, C14

\* remove(key) raises what its delete raises.
removeRaises(d, key) == DeleteRaises(invalidate(d), key)

\* No set() stored the key.
NotStored(key) == key \notin Range(PropNames(dict))

\* remove(key) leaves what a caller can see as it is.
RemoveChangesNothing(key) ==
    /\ getKeys(remove(dict, key)).ret = getKeys(dict).ret
    /\ size(remove(dict, key)).ret = size(dict).ret
    /\ remove(dict, key).props = dict.props

\* C13: remove(key) for a key that is not stored raises nothing and
\* changes nothing a caller can see: getKeys(), size() and every stored
\* value are as before.
C13_RemoveAbsentIsNoOp ==
    \A key \in Keys :
        NotStored(key) => ~removeRaises(dict, key) /\ RemoveChangesNothing(key)

\* The same for the keys that are not the name of the internal field.
RemoveAbsentUserKey ==
    \A key \in UserKeys :
        NotStored(key) => ~removeRaises(dict, key) /\ RemoveChangesNothing(key)

\* The cache of a caching container that is not marked stale lists the keys
\* of the container.
CleanCacheIsCurrent ==
    dict.cacheKeys /\ ~dict.invalidateKeys =>
        ~dict.keys.isNull /\ dict.keys.arr = ObjectKeys(dict)

\* Every set() and every remove() marks the cache stale.
WritesMarkStale ==
    /\ \A key \in Keys, value \in Values : set(dict, key, value).invalidateKeys
    /\ \A key \in Keys : remove(dict, key).invalidateKeys

\* A step that takes the stale mark away is a getKeys() that rebuilds the
\* cache.
OnlyGetKeysCleans ==
    dict.invalidateKeys /\ ~dict'.invalidateKeys =>
        /\ dict' = getKeys(dict).d
        /\ dict'.keys.arr = ObjectKeys(dict)
        /\ dict'.props = dict.props

\* C14: in a caching container, whenever the cache is not marked stale it
\* is not null and lists exactly the keys of the container; every set() and
\* remove(), also of a stored or of an absent key, marks it stale; and only
\* getKeys() takes the mark away, when it rebuilds the cache.
C14_CacheCoherent ==
    /\ [](CleanCacheIsCurrent /\ WritesMarkStale)
    /\ [][OnlyGetKeysCleans]_vars

\* A caching container of two keys or more whose cache was rebuilt.
C14_Witness ==
    /\ dict.cacheKeys /\ ~dict.invalidateKeys
    /\ Len(dict.keys.arr) >= 2
    /\ dict.keys.arr = ObjectKeys(dict)

\* ------------------------------------ asyncForEach again: C15, C16, C17

\* C15: once the completion of a traversal has fired, no step callback is
\* invoked any more and the completion callback is not invoked again,
\* whatever the step callbacks do: call the continuation not at all, once
\* or twice, return false or something else.
C15_DoneIsAbsorbing ==
    \A i \in 1..Len(run.log) :
        IsCompletion(run.log[i]) =>
            \A j \in (i + 1)..Len(run.log) :
                run.log[j].ev \notin {"step", "cbComplete"}

\* What the callback returned from its n-th invocation.
ReturnOf(n) == IF n = run.cb.at THEN run.cb.ret ELSE run.cb.other

\* The number of step invocations among the first i events.
StepsUpTo(i) == Cardinality({ j \in 1..i : run.log[j].ev = "step" })

\* C16: only the value false, returned by a step callback, ends the
\* traversal: when the callback calls the continuation and returns
\* undefined, null, 0 or "", its return is not followed by the completion,
\* and the remaining keys are visited.
C16_OnlyFalseTerminates ==
    (run.phase = "running" /\ run.cb.calls = 1 /\ run.cb.mode = "now")
        => /\ \A i \in 1..(Len(run.log) - 1) :
                 run.log[i].ev = "stepReturn" /\ IsCompletion(run.log[i + 1])
                     => ReturnOf(StepsUpTo(i)) = "false"
           /\ run.cb.ret # "false" /\ Quiescent => Count("step") = run.len

\* What holds of C16: the return of undefined or null is not taken for a
\* request to end the traversal.
UndefinedAndNullGoOn ==
    (~LooselyEqualsFalse(run.cb.other) /\ ~LooselyEqualsFalse(run.cb.ret))
        => C16_OnlyFalseTerminates

\* C17: the step callback gets the keys in the order of the snapshot, each
\* place once at most: its i-th invocation gets the i-th key of the
\* snapshot; and no invocation starts while another one of the traversal
\* has not returned, whatever the callbacks do.
C17_InOrderOneAtATime ==
    /\ Len(Steps) <= run.len
    /\ \A i \in 1..Len(Steps) : Steps[i].key = Snapshot[i]
    /\ \A i, j \in 1..Len(run.log) :
          i < j /\ run.log[i].ev = "step" /\ run.log[j].ev = "step"
              => \E k \in (i + 1)..(j - 1) : run.log[k].ev = "stepReturn"

\* A traversal of three keys whose callback called the continuation twice
\* in one step, and that has visited them all.
C17_Witness ==
    /\ run.phase = "running"
    /\ run.len >= 3
    /\ run.cb.calls = 2 /\ run.cb.at < run.len
    /\ Len(Steps) = run.len
    /\ Quiescent

\* ------------------------------ values seen during a traversal: C18

\* The value the key of the event at position p of the log had when that
\* event happened: what the last set() or remove() of the key before it
\* left, or else what the key held when the traversal started.
ValueBefore(p) ==
    LET key   == run.log[p].key
        wrote == { q \in 1..(p - 1) :
                     run.log[q].ev \in {"set", "remove"} /\ run.log[q].key = key }
    IN  IF wrote = {} THEN GetProperty([props |-> run.atCall], key)
        ELSE run.log[CHOOSE q \in wrote : \A o \in wrote : o <= q].value

\* C18: a step callback gets the value its key has in the container when
\* the step is invoked, not the value at the start of the traversal: a
\* set() during the traversal on a key not visited yet is seen by the step
\* of that key.
C18_StepSeesLiveValue ==
    \A p \in 1..Len(run.log) :
        run.log[p].ev = "step" => run.log[p].value = ValueBefore(p)

\* A step got a value that a set() stored after the traversal had started.
C18_Witness ==
    \E p \in 1..Len(run.log), q \in 1..Len(run.log) :
        /\ q < p
        /\ StepsUpTo(q) >= 1
        /\ run.log[q].ev = "set" /\ run.log[p].ev = "step"
        /\ run.log[q].key = run.log[p].key
        /\ run.log[p].value = run.log[q].value
        /\ run.log[p].value # GetProperty([props |-> run.atCall], run.log[p].key)

\* ------------------------------------------------ progress: C19, C20

\* The traversals of a container that holds some of three keys.  The host
\* runs every task queued with process.nextTick, and a callback that has put
\* off its call of the continuation makes it.
FairNext ==
    \/ \E key \in ConcurrentKeys : Prepare(key, "0")
    \/ \E cb \in StepCallbacks, cbComplete \in BOOLEAN : AsyncForEach(cb, cbComplete)
    \/ Tick
    \/ Advance

SpecAsyncFair == Init /\ [][FairNext]_vars /\ WF_vars(Tick) /\ WF_vars(Advance)

\* In every step the callback returns false or calls the continuation.
Cooperative == AlwaysAdvances \/ run.cb.ret = "false"

\* C19: when in every step the callback returns false or calls the
\* continuation, at once or later, and the host runs every queued task, a
\* traversal that was started has its completion fired at some time.
C19_EventuallyCompletes ==
    (run.phase = "running" /\ Cooperative) ~> (Notifications >= 1)

\* A traversal of two keys or more whose callback put off every call of the
\* continuation, and whose completion fired after the last key.
C19_Witness ==
    /\ run.phase = "running"
    /\ run.len >= 2
    /\ run.cb.mode = "later" /\ run.cb.calls = 1 /\ run.cb.ret = Undefined
    /\ run.cb.other = Undefined
    /\ Count("step") = run.len
    /\ Notifications = 1

\* In its at-th step the callback does not call the continuation and does
\* not return false.
Stalls ==
    /\ run.phase = "running"
    /\ run.cb.calls = 0
    /\ run.cb.ret # "false"
    /\ run.cb.at <= run.len

\* C20: when in one step the callback neither returns false nor calls the
\* continuation, the traversal stays where it is: no later key is visited
\* and the completion never fires.
C20_StallsWithoutAdvance ==
    Stalls => Count("step") <= run.cb.at /\ Notifications = 0

\* What holds of C20: it holds of a callback none of whose return values
\* is loosely equal to false.
StallsForUndefinedAndNull ==
    (~LooselyEqualsFalse(run.cb.other) /\ ~LooselyEqualsFalse(run.cb.ret))
        => C20_StallsWithoutAdvance

\* A traversal stalled at a key that is not the last one.
StalledBeforeTheEnd ==
    /\ Stalls
    /\ run.cb.at < run.len
    /\ run.invoked = run.cb.at
    /\ Quiescent
    /\ Notifications = 0

====
